---- MODULE Spec2Model ----
(***************************************************************************)
(* Model of edd.c: the Naegele's-rule calculator.  One LNMP string         *)
(* (dd/mm/yyyy) is parsed and validated, the Estimated Due Date (EDD) is   *)
(* derived from it by calendar arithmetic, and the Weeks of Amenorrhea     *)
(* (WOA) from the seconds elapsed between the LNMP instant and now.        *)
(*                                                                         *)
(* C strings are TLA+ strings; a character is a string of length one.      *)
(* A char pointer is a sequence: empty for the null pointer, and otherwise *)
(* holding the one string it points to.                                    *)
(***************************************************************************)
EXTENDS Integers, Sequences, FiniteSets, TLC

\* ------------------------------------------------------------------------
\* Program constants (edd.c:8-28, 64, 222-223)
\* ------------------------------------------------------------------------
DATE_STR_MAX_LEN == 16
WOA_STR_MAX_LEN == 32
EDD_DAY_OFFSET == 7
EDD_MONTH_OFFSET == 3

NAEGELES_OK == 0
NAEGELES_ERR_NULL_PARAM == -1
NAEGELES_ERR_INVALID_DATE == -2
NAEGELES_ERR_DATE_CONVERSION == -3
NAEGELES_ERR_SYSTEM_TIME == -4
NAEGELES_ERR_FUTURE_DATE == -5
NAEGELES_ERR_BUFFER_TOO_SMALL == -6

MIN_YEAR == 1900
MAX_YEAR == 2100
SECONDS_PER_DAY == 86400
DAYS_PER_WEEK == 7
DATE_STR_LEN == 10

\* (time_t)-1: the failure value of mktime() and time().
TIME_ERROR == -1

\* ------------------------------------------------------------------------
\* Bounds of the model
\* ------------------------------------------------------------------------
\* Largest day and month number, and the margin of years around
\* MIN_YEAR..MAX_YEAR, of the numeric dates explored.
DayHi == 32
MonthHi == 13
YearPad == 1
\* Cap on the executions of the day-overflow loop body.
MaxIters == 3
\* Largest number of whole days between the LNMP and now.
MaxDays == 74

\* ------------------------------------------------------------------------
\* Pointers
\* ------------------------------------------------------------------------
\* The null pointer is the empty sequence; a pointer to the string s is the
\* sequence of s alone, so that no string is equal to the null pointer.
NULL == <<>>

Ptr(s) == <<s>>

Deref(p) == p[1]

Ptrs(S) == {Ptr(s) : s \in S}

\* ------------------------------------------------------------------------
\* C arithmetic and characters
\* ------------------------------------------------------------------------
\* C's % and / truncate towards zero.
CMod(a, b) == IF a >= 0 THEN a % b ELSE -((-a) % b)
CDiv(a, b) == IF a >= 0 THEN a \div b ELSE -((-a) \div b)

Char(s, i) == SubSeq(s, i, i)

DigitChars == "0123456789"

DigitSet == {"0", "1", "2", "3", "4", "5", "6", "7", "8", "9"}

IsDigit(c) == c \in DigitSet

DigitVal(c) == CHOOSE k \in 0..9 : Char(DigitChars, k + 1) = c

\* isspace() of the C locale: space, \t, \n, \v, \f and \r.  The vertical
\* tab has no escape in a TLA+ string and is written as the character.
VerticalTab == ""

IsSpace(c) == c \in {" ", "\t", "\n", VerticalTab, "\f", "\r"}

\* ------------------------------------------------------------------------
\* Calendar (edd.c:35-74)
\* ------------------------------------------------------------------------
\* Faulty variant: the century rule is forgotten.
is_leap_year_Div4Only(y) == CMod(y, 4) = 0

is_leap_year(y) ==
    (CMod(y, 4) = 0 /\ CMod(y, 100) # 0) \/ (CMod(y, 400) = 0)

days == <<31, 28, 31, 30, 31, 30, 31, 31, 30, 31, 30, 31>>

days_in_month(m, y) ==
    IF m < 1 \/ m > 12 THEN 0
    ELSE IF m = 2 /\ is_leap_year(y) THEN 29
    ELSE days[m]

is_valid_date(d, m, y) ==
    IF y < MIN_YEAR \/ y > MAX_YEAR THEN FALSE
    ELSE IF m < 1 \/ m > 12 THEN FALSE
    ELSE IF d < 1 \/ d > days_in_month(m, y) THEN FALSE
    ELSE TRUE

\* ------------------------------------------------------------------------
\* sscanf(lnmp, "%2d/%2d/%4d", ...) (edd.c:95)
\* ------------------------------------------------------------------------
RECURSIVE SkipSpace(_, _)
SkipSpace(s, i) ==
    IF i <= Len(s) /\ IsSpace(Char(s, i)) THEN SkipSpace(s, i + 1) ELSE i

\* Reads at most w decimal digits of s from position i on; acc is the value
\* and n the number of digits read so far.
RECURSIVE ScanDigits(_, _, _, _, _)
ScanDigits(s, i, w, acc, n) ==
    IF w > 0 /\ i <= Len(s) /\ IsDigit(Char(s, i))
    THEN ScanDigits(s, i + 1, w - 1, 10 * acc + DigitVal(Char(s, i)), n + 1)
    ELSE [val |-> acc, next |-> i, count |-> n]

\* The result of a conversion %<w>d whose digits d were read after a sign
\* (neg: a minus sign); eof: the input ended before the conversion.  The
\* conversion fails when no digit is read.
ScanResult(neg, eof, d) ==
    [ok |-> d.count > 0,
     eof |-> eof,
     val |-> IF neg THEN -d.val ELSE d.val,
     next |-> d.next]

\* The conversion %<w>d at position i0, white space already skipped: an
\* optional sign, which counts in the width, and the digits.
ScanSigned(s, i0, w) ==
    IF w > 0 /\ i0 <= Len(s) /\ Char(s, i0) \in {"+", "-"}
    THEN ScanResult(Char(s, i0) = "-", FALSE, ScanDigits(s, i0 + 1, w - 1, 0, 0))
    ELSE ScanResult(FALSE, i0 > Len(s), ScanDigits(s, i0, w, 0, 0))

\* The conversion %<w>d at position i: white space is skipped and does
\* not count in the width.
ScanInt(s, i, w) == ScanSigned(s, SkipSpace(s, i), w)

\* The literal '/' of the format at position i.
MatchSlash(s, i) == i <= Len(s) /\ Char(s, i) = "/"

\* The return value of sscanf (the number of fields assigned, EOF = -1 when
\* the input ends before the first conversion) and the fields assigned.
\* Characters after the last conversion are not looked at.
SscanfYear(a, b, c) ==
    IF ~c.ok
    THEN [parsed |-> 2, day |-> a.val, month |-> b.val, year |-> 0]
    ELSE [parsed |-> 3, day |-> a.val, month |-> b.val, year |-> c.val]

SscanfMonth(s, a, b) ==
    IF ~b.ok
    THEN [parsed |-> 1, day |-> a.val, month |-> 0, year |-> 0]
    ELSE IF ~MatchSlash(s, b.next)
    THEN [parsed |-> 2, day |-> a.val, month |-> b.val, year |-> 0]
    ELSE SscanfYear(a, b, ScanInt(s, b.next + 1, 4))

SscanfDay(s, a) ==
    IF ~a.ok
    THEN [parsed |-> IF a.eof THEN -1 ELSE 0, day |-> 0, month |-> 0, year |-> 0]
    ELSE IF ~MatchSlash(s, a.next)
    THEN [parsed |-> 1, day |-> a.val, month |-> 0, year |-> 0]
    ELSE SscanfMonth(s, a, ScanInt(s, a.next + 1, 2))

Sscanf(s) == SscanfDay(s, ScanInt(s, 1, 2))

\* ------------------------------------------------------------------------
\* parse_date (edd.c:84-106)
\* ------------------------------------------------------------------------
\* The validation of the three fields sscanf returned (edd.c:96-105).
ParseResult(r) ==
    IF r.parsed # 3
    THEN [ok |-> FALSE, day |-> r.day, month |-> r.month, year |-> r.year]
    ELSE [ok |-> is_valid_date(r.day, r.month, r.year),
          day |-> r.day, month |-> r.month, year |-> r.year]

\* Faulty variant: the length of the string is not checked.
parse_date_NoLengthCheck(s) ==
    IF s = NULL
    THEN [ok |-> FALSE, day |-> 0, month |-> 0, year |-> 0]
    ELSE ParseResult(Sscanf(Deref(s)))

parse_date(s) ==
    IF s = NULL
    THEN [ok |-> FALSE, day |-> 0, month |-> 0, year |-> 0]
    ELSE IF Len(Deref(s)) # DATE_STR_LEN
    THEN [ok |-> FALSE, day |-> 0, month |-> 0, year |-> 0]
    ELSE ParseResult(Sscanf(Deref(s)))

\* ------------------------------------------------------------------------
\* snprintf (edd.c:130, 162, 188, 204, 211, 218, 228-231)
\* ------------------------------------------------------------------------
RECURSIVE NatToStr(_)
NatToStr(n) ==
    IF n < 10 THEN Char(DigitChars, n + 1)
    ELSE NatToStr(n \div 10) \o Char(DigitChars, (n % 10) + 1)

RECURSIVE ZeroPad(_, _)
ZeroPad(str, w) == IF Len(str) >= w THEN str ELSE ZeroPad("0" \o str, w)

\* %d
FmtD(n) == IF n < 0 THEN "-" \o NatToStr(-n) ELSE NatToStr(n)

\* %0<w>d: the sign counts in the width and precedes the zeros.
FmtZeroD(n, w) ==
    IF n < 0 THEN "-" \o ZeroPad(NatToStr(-n), w - 1) ELSE ZeroPad(NatToStr(n), w)

\* snprintf writes at most size - 1 characters and the terminator.
Snprintf(size, text) ==
    IF Len(text) <= size - 1 THEN text ELSE SubSeq(text, 1, size - 1)

\* "%02d/%02d/%04d"
FormatDate(d, m, y) ==
    FmtZeroD(d, 2) \o "/" \o FmtZeroD(m, 2) \o "/" \o FmtZeroD(y, 4)

\* ------------------------------------------------------------------------
\* naegeles_error_string (edd.c:264-283)
\* ------------------------------------------------------------------------
\* Faulty variant: the case of the future-date error is missing.
naegeles_error_string_MissingCase(error_code) ==
    CASE error_code = NAEGELES_OK -> "Success"
      [] error_code = NAEGELES_ERR_NULL_PARAM -> "NULL parameter provided"
      [] error_code = NAEGELES_ERR_INVALID_DATE -> "Invalid date format or value"
      [] error_code = NAEGELES_ERR_DATE_CONVERSION -> "Failed to convert date"
      [] error_code = NAEGELES_ERR_SYSTEM_TIME -> "Failed to get system time"
      [] error_code = NAEGELES_ERR_BUFFER_TOO_SMALL -> "Output buffer too small"
      [] OTHER -> "Unknown error"

naegeles_error_string(error_code) ==
    CASE error_code = NAEGELES_OK -> "Success"
      [] error_code = NAEGELES_ERR_NULL_PARAM -> "NULL parameter provided"
      [] error_code = NAEGELES_ERR_INVALID_DATE -> "Invalid date format or value"
      [] error_code = NAEGELES_ERR_DATE_CONVERSION -> "Failed to convert date"
      [] error_code = NAEGELES_ERR_SYSTEM_TIME -> "Failed to get system time"
      [] error_code = NAEGELES_ERR_FUTURE_DATE -> "LNMP date is in the future"
      [] error_code = NAEGELES_ERR_BUFFER_TOO_SMALL -> "Output buffer too small"
      [] OTHER -> "Unknown error"

\* ------------------------------------------------------------------------
\* naegeles_compute_edd up to the day-overflow loop (edd.c:119-145).
\* running: the function has reached the loop; otherwise ret is returned.
\* out is the pointer edd_out with the content the function leaves in the
\* buffer.
\* ------------------------------------------------------------------------
EddMonthShift(m, y) ==
    IF m > 3
    THEN [month |-> m - EDD_MONTH_OFFSET, year |-> y]
    ELSE [month |-> m + (12 - EDD_MONTH_OFFSET), year |-> y - 1]

\* Faulty variant: max_days is taken after the month shift, as in section 4.2.
EddMaxDays_Shifted(m, y) ==
    days_in_month(EddMonthShift(m, y).month, EddMonthShift(m, y).year)

\* int max_days = days_in_month(month, year), before the shift (edd.c:134).
EddMaxDays(m, y) == days_in_month(m, y)

\* A return before the loop, with the buffer as the function leaves it.
EddStop(code, out) ==
    [running |-> FALSE, ret |-> code, out |-> out,
     day |-> 0, month |-> 0, year |-> 0, max_days |-> 0]

\* The locals at the first test of the loop (edd.c:134-145).
EddLocals(out, d, sh, md) ==
    [running |-> TRUE, ret |-> NAEGELES_OK, out |-> out,
     day |-> d + EDD_DAY_OFFSET, month |-> sh.month, year |-> sh.year,
     max_days |-> md]

\* After parse_date has returned p (edd.c:129-145).
EddParsed(out, size, p) ==
    IF ~p.ok
    THEN EddStop(NAEGELES_ERR_INVALID_DATE, Ptr(Snprintf(size, "Invalid date")))
    ELSE EddLocals(out, p.day, EddMonthShift(p.month, p.year),
                   EddMaxDays(p.month, p.year))

EddEntry(l, out, size) ==
    IF l = NULL \/ out = NULL
    THEN EddStop(NAEGELES_ERR_NULL_PARAM, out)
    ELSE IF size < DATE_STR_MAX_LEN
    THEN EddStop(NAEGELES_ERR_BUFFER_TOO_SMALL, out)
    ELSE EddParsed(out, size, parse_date(l))

\* ------------------------------------------------------------------------
\* naegeles_compute_woa (edd.c:176-235).  lt is what mktime() returns for
\* the LNMP at local midnight and ct what time() returns.
\* ------------------------------------------------------------------------
\* Faulty variant: the plural is always used.
Plural_AlwaysMany(n, one, many) == many

Plural(n, one, many) == IF n = 1 THEN one ELSE many

WoaTotalDays(diff_seconds) == CDiv(diff_seconds, SECONDS_PER_DAY)

WoaText(weeks, d) ==
    IF d > 0
    THEN FmtD(weeks) \o " " \o Plural(weeks, "week", "weeks") \o ", "
         \o FmtD(d) \o " " \o Plural(d, "day", "days")
    ELSE FmtD(weeks) \o " " \o Plural(weeks, "week", "weeks")

\* The age from the whole days elapsed (edd.c:223-232).
WoaAge(total_days) ==
    WoaText(CDiv(total_days, DAYS_PER_WEEK), CMod(total_days, DAYS_PER_WEEK))

\* From the conversion of the LNMP on (edd.c:192-234).
WoaElapsed(size, lt, ct) ==
    IF lt = TIME_ERROR
    THEN [ret |-> NAEGELES_ERR_DATE_CONVERSION,
          out |-> Ptr(Snprintf(size, "Date conversion error"))]
    ELSE IF ct = TIME_ERROR
    THEN [ret |-> NAEGELES_ERR_SYSTEM_TIME,
          out |-> Ptr(Snprintf(size, "System time error"))]
    ELSE IF ct - lt < 0
    THEN [ret |-> NAEGELES_ERR_FUTURE_DATE,
          out |-> Ptr(Snprintf(size, "LNMP is in the future"))]
    ELSE [ret |-> NAEGELES_OK,
          out |-> Ptr(Snprintf(size, WoaAge(WoaTotalDays(ct - lt))))]

WoaBody(l, out, size, lt, ct) ==
    IF l = NULL \/ out = NULL
    THEN [ret |-> NAEGELES_ERR_NULL_PARAM, out |-> out]
    ELSE IF size < WOA_STR_MAX_LEN
    THEN [ret |-> NAEGELES_ERR_BUFFER_TOO_SMALL, out |-> out]
    ELSE IF ~parse_date(l).ok
    THEN [ret |-> NAEGELES_ERR_INVALID_DATE,
          out |-> Ptr(Snprintf(size, "Invalid date"))]
    ELSE WoaElapsed(size, lt, ct)

\* ------------------------------------------------------------------------
\* State
\* ------------------------------------------------------------------------
VARIABLES
    lnmp,           \* the LNMP argument: a pointer to a string, or NULL
    edd_out,        \* the EDD buffer: a pointer to its content, or NULL
    edd_out_size,
    woa_out,        \* the WOA buffer: a pointer to its content, or NULL
    woa_out_size,
    edd_passed,     \* the EDD buffer as the caller passed it
    woa_passed,     \* the WOA buffer as the caller passed it
    lnmp_time,      \* what mktime() yields for the LNMP
    current_time,   \* what time(NULL) yields
    caller,         \* the entry point that was called
    pc,             \* position of the call
    day, month, year, max_days,   \* locals of naegeles_compute_edd
    iters,          \* executions of the loop body so far
    edd_result,     \* locals of naegeles_compute
    woa_result,
    woa_called,     \* naegeles_compute_woa has been entered
    result,         \* value returned by the entry point
    stdout, stderr, exit_code     \* of main

vars == <<lnmp, edd_out, edd_out_size, woa_out, woa_out_size, edd_passed,
          woa_passed, lnmp_time, current_time, caller, pc, day, month, year, max_days,
          iters, edd_result, woa_result, woa_called, result,
          stdout, stderr, exit_code>>

inputs == <<lnmp, lnmp_time, current_time>>
edd_locals == <<day, month, year, max_days, iters>>
passed == <<edd_passed, woa_passed>>
main_io == <<stdout, stderr, exit_code>>

\* The state before a call, with the arguments and the environment drawn
\* from the given sets.
Start(Lnmps, EddBufs, EddSizes, WoaBufs, WoaSizes, LnmpTimes, Nows) ==
    /\ lnmp \in Lnmps
    /\ edd_out \in EddBufs
    /\ edd_out_size \in EddSizes
    /\ woa_out \in WoaBufs
    /\ woa_out_size \in WoaSizes
    /\ edd_passed = edd_out
    /\ woa_passed = woa_out
    /\ lnmp_time \in LnmpTimes
    /\ current_time \in Nows
    /\ caller = "none"
    /\ pc = "idle"
    /\ day = 0 /\ month = 0 /\ year = 0 /\ max_days = 0 /\ iters = 0
    /\ edd_result = NAEGELES_OK
    /\ woa_result = NAEGELES_OK
    /\ woa_called = FALSE
    /\ result = NAEGELES_OK
    /\ stdout = "" /\ stderr = "" /\ exit_code = 0

\* ------------------------------------------------------------------------
\* The day-overflow loop of naegeles_compute_edd (edd.c:147-156)
\* ------------------------------------------------------------------------
\* Faulty variant: the loop test is off by one.
EddOverflow_OffByOne(d, md) == d >= md

EddOverflow(d, md) == d > md

\* Faulty variant: December wraps to January without the year being incremented.
EddLoopStep_NoYearWrap(d, m, y) ==
    LET m1 == m + 1
        m2 == IF m1 > 12 THEN 1 ELSE m1
    IN [month |-> m2, year |-> y, max_days |-> days_in_month(m2, y)]

EddLoopStep(d, m, y) ==
    LET m1 == m + 1
        m2 == IF m1 > 12 THEN 1 ELSE m1
        y2 == IF m1 > 12 THEN y + 1 ELSE y
    IN [month |-> m2, year |-> y2, max_days |-> days_in_month(m2, y2)]

\* Faulty variant: the WOA step runs whatever the EDD step returned.
ShortCircuit_Never(r) == FALSE

\* if (edd_result != NAEGELES_OK) return edd_result;  (edd.c:251-253)
ShortCircuit(r) == r # NAEGELES_OK

\* ------------------------------------------------------------------------
\* Actions
\* ------------------------------------------------------------------------
\* The outcome e of the entry of naegeles_compute_edd, on behalf of the
\* entry point c: either it has returned an error, and control goes to
\* failpc, or it has reached the loop.
EddEntered(c, size, failpc, e) ==
    /\ caller' = c
    /\ edd_out' = e.out
    /\ edd_out_size' = size
    /\ IF e.running
       THEN /\ pc' = "edd_loop"
            /\ day' = e.day
            /\ month' = e.month
            /\ year' = e.year
            /\ max_days' = e.max_days
            /\ UNCHANGED <<iters, edd_result, result>>
       ELSE /\ edd_result' = e.ret
            /\ result' = e.ret
            /\ pc' = IF c = "edd" \/ ShortCircuit(e.ret) THEN failpc ELSE "woa"
            /\ UNCHANGED edd_locals

\* Entry of naegeles_compute_edd with the buffer (out, size).
EnterEdd(c, out, size, failpc) ==
    EddEntered(c, size, failpc, EddEntry(lnmp, out, size))

\* naegeles_compute_edd called directly (edd.c:118-145).
naegeles_compute_edd ==
    /\ pc = "idle"
    /\ EnterEdd("edd", edd_out, edd_out_size, "done")
    /\ UNCHANGED <<inputs, woa_out, woa_out_size, passed, woa_result,
                   woa_called, main_io>>

\* One execution of the loop body (edd.c:148-156).
edd_loop_body ==
    /\ pc = "edd_loop"
    /\ EddOverflow(day, max_days)
    /\ iters < MaxIters
    /\ LET n == EddLoopStep(day, month, year)
       IN /\ day' = day - max_days
          /\ month' = n.month
          /\ year' = n.year
          /\ max_days' = n.max_days
    /\ iters' = iters + 1
    /\ UNCHANGED <<inputs, edd_out, edd_out_size, woa_out, woa_out_size,
                   passed, caller, pc, edd_result, woa_result,
                   woa_called, result, main_io>>

\* Loop exit, the year compensation and the formatting (edd.c:158-163).
edd_return ==
    /\ pc = "edd_loop"
    /\ ~EddOverflow(day, max_days)
    /\ year' = year + 1
    /\ edd_out' = Ptr(Snprintf(edd_out_size, FormatDate(day, month, year + 1)))
    /\ edd_result' = NAEGELES_OK
    /\ IF caller = "edd" \/ ShortCircuit(NAEGELES_OK)
       THEN pc' = "done" /\ result' = NAEGELES_OK
       ELSE pc' = "woa" /\ UNCHANGED result
    /\ UNCHANGED <<inputs, edd_out_size, woa_out, woa_out_size, passed,
                   caller, day, month, max_days, iters, woa_result,
                   woa_called, main_io>>

\* naegeles_compute_woa has returned w.
WoaReturned(w) ==
    /\ woa_out' = w.out
    /\ woa_result' = w.ret
    /\ result' = w.ret

\* naegeles_compute_woa called directly (edd.c:176-235).
naegeles_compute_woa ==
    /\ pc = "idle"
    /\ WoaReturned(WoaBody(lnmp, woa_out, woa_out_size, lnmp_time, current_time))
    /\ woa_called' = TRUE
    /\ caller' = "woa"
    /\ pc' = "done"
    /\ UNCHANGED <<inputs, edd_out, edd_out_size, woa_out_size, passed,
                   edd_locals, edd_result, main_io>>

\* naegeles_compute: the EDD step (edd.c:250-253).
naegeles_compute ==
    /\ pc = "idle"
    /\ EnterEdd("compute", edd_out, edd_out_size, "done")
    /\ UNCHANGED <<inputs, woa_out, woa_out_size, passed, woa_result,
                   woa_called, main_io>>

\* naegeles_compute: the WOA step and the return (edd.c:255-256).
compute_woa_step ==
    /\ pc = "woa"
    /\ WoaReturned(WoaBody(lnmp, woa_out, woa_out_size, lnmp_time, current_time))
    /\ woa_called' = TRUE
    /\ pc' = IF caller = "main" THEN "main_exit" ELSE "done"
    /\ UNCHANGED <<inputs, edd_out, edd_out_size, woa_out_size, passed,
                   caller, edd_locals, edd_result, main_io>>

\* fprintf(stderr, "Usage: %s LNMP[dd/mm/yyyy]\n", argv[0])  (edd.c:296)
UsageLine(argv0) == "Usage: " \o argv0 \o " LNMP[dd/mm/yyyy]\n"

\* The names the program is invoked by (argv[0]).
ProgramNames == {"edd", "./edd_cli", "/usr/local/bin/edd-calc"}

\* What main's arrays edd and woa, which are not initialised, may hold
\* when naegeles_compute is called (edd.c:300-301).
StackContents == {"", "<null>"}

\* main up to the call of naegeles_compute (edd.c:294-303).  argv[1] is
\* lnmp, which is not null when argc is 2; the two buffers are main's own
\* arrays.
main ==
    /\ pc = "idle"
    /\ \E argc \in 1..3 :
        IF argc # 2
        THEN /\ \E argv0 \in ProgramNames : stderr' = UsageLine(argv0)
             /\ exit_code' = 1
             /\ caller' = "main"
             /\ pc' = "done"
             /\ UNCHANGED <<inputs, edd_out, edd_out_size, woa_out,
                            woa_out_size, passed, edd_locals, edd_result,
                            woa_result, woa_called, result, stdout>>
        ELSE /\ lnmp # NULL
             /\ \E edd \in StackContents, woa \in StackContents :
                    /\ EnterEdd("main", Ptr(edd), DATE_STR_MAX_LEN, "main_exit")
                    /\ edd_passed' = Ptr(edd)
                    /\ woa_out' = Ptr(woa)
                    /\ woa_passed' = Ptr(woa)
             /\ woa_out_size' = WOA_STR_MAX_LEN
             /\ UNCHANGED <<inputs, woa_result, woa_called, main_io>>

\* main after naegeles_compute has returned (edd.c:305-313).
main_return ==
    /\ pc = "main_exit"
    /\ IF result # NAEGELES_OK
       THEN /\ stderr' = "Error: " \o naegeles_error_string(result) \o "\n"
            /\ exit_code' = 1
            /\ UNCHANGED stdout
       ELSE /\ stdout' = "EDD: " \o Deref(edd_out) \o "\n"
                         \o "WOA: " \o Deref(woa_out) \o "\n"
            /\ exit_code' = 0
            /\ UNCHANGED stderr
    /\ pc' = "done"
    /\ UNCHANGED <<inputs, edd_out, edd_out_size, woa_out, woa_out_size,
                   passed, caller, edd_locals, edd_result, woa_result,
                   woa_called, result>>

\* ------------------------------------------------------------------------
\* Specifications
\* ------------------------------------------------------------------------
\* The instant of the call, in seconds since the epoch.
Now == 20000 * SECONDS_PER_DAY

\* Instants of an LNMP up to MaxDays whole days before now, at the start
\* and at the end of a day, and up to one day after now.
ElapsedSeconds ==
    {k * SECONDS_PER_DAY + r : k \in (-1)..MaxDays, r \in {0, SECONDS_PER_DAY - 1}}

LnmpTimes == {TIME_ERROR} \cup {Now - e : e \in ElapsedSeconds}

\* Every numeric date, valid or not, around the accepted range, written
\* as dd/mm/yyyy.
NumericDates ==
    {FormatDate(d, m, y) :
        d \in 0..DayHi, m \in 0..MonthHi,
        y \in (MIN_YEAR - YearPad)..(MAX_YEAR + YearPad)}

\* Strings assembled from a day, a month and a year field and two
\* separators, each well formed or with one defect.
DayFields == {"01", "1", " 1", "\r1", "\t1", "+1", "-1", "31", "00", "0x", "20",
              "1 ", "", VerticalTab \o "1"}
MonthFields == {"02", "2", " 2", "\f2", "+2", "13", "00", "24", "x2"}
YearFields == {"2024", "024", " 202", "+202", "-202", "2024x", "2024 ",
               "2024xx", "1899", "20x4", "24", "20245", "2023/1",
               VerticalTab \o "202", "\n\r24"}
Separators == {"/", "-", ""}

FieldStrings ==
    {d \o s1 \o m \o s2 \o y :
        d \in DayFields, s1 \in Separators, m \in MonthFields,
        s2 \in Separators, y \in YearFields}

SampleStrings ==
    {"01/01/2024", "15/06/2023", "28/02/2024", "24/05/2024", "31/02/2024",
     "00/01/2024", "01/13/2024", "2024/01/01", "", " 1/02/2024", "<null>"}

\* What a buffer holds before the call.
BufferContents == {"", "<null>"}

\* Every valid and invalid numeric date through naegeles_compute_edd.
InitDates ==
    Start(Ptrs(NumericDates), {Ptr("")}, {DATE_STR_MAX_LEN}, {Ptr("")},
          {WOA_STR_MAX_LEN}, {Now}, {Now})

NextDates == naegeles_compute_edd \/ edd_loop_body \/ edd_return

SpecDates == InitDates /\ [][NextDates]_vars

\* Well-formed and malformed strings through the three library calls.
InitStrings ==
    Start(Ptrs(FieldStrings \cup SampleStrings), {Ptr("")},
          {DATE_STR_MAX_LEN}, {Ptr("")}, {WOA_STR_MAX_LEN},
          {Now - SECONDS_PER_DAY, Now + 1}, {Now})

NextStrings ==
    \/ naegeles_compute_edd
    \/ edd_loop_body
    \/ edd_return
    \/ naegeles_compute_woa
    \/ naegeles_compute
    \/ compute_woa_step

SpecStrings == InitStrings /\ [][NextStrings]_vars

\* Every entry point, with null and short buffers, a failing clock, and
\* LNMP instants before and after now.
Init ==
    Start(Ptrs(SampleStrings) \cup {NULL},
          Ptrs(BufferContents) \cup {NULL},
          {DATE_STR_MAX_LEN - 1, DATE_STR_MAX_LEN},
          Ptrs(BufferContents) \cup {NULL},
          {WOA_STR_MAX_LEN - 1, WOA_STR_MAX_LEN}, LnmpTimes, {TIME_ERROR, Now})

Next ==
    \/ naegeles_compute_edd
    \/ edd_loop_body
    \/ edd_return
    \/ naegeles_compute_woa
    \/ naegeles_compute
    \/ compute_woa_step
    \/ main
    \/ main_return

Spec == Init /\ [][Next]_vars

\* ------------------------------------------------------------------------
\* Reference definitions used by the properties: the calendar, the shape
\* of a date string and Naegele's rule as the specification states them.
\* ------------------------------------------------------------------------
RefLeap(y) == (y % 4 = 0 /\ y % 100 # 0) \/ (y % 400 = 0)

RefMonthLength(m, y) ==
    IF m = 2 THEN (IF RefLeap(y) THEN 29 ELSE 28)
    ELSE IF m \in {4, 6, 9, 11} THEN 30
    ELSE 31

RefValid(d, m, y) ==
    /\ MIN_YEAR <= y /\ y <= MAX_YEAR
    /\ 1 <= m /\ m <= 12
    /\ 1 <= d /\ d <= RefMonthLength(m, y)

\* Exactly dd/mm/yyyy: ten characters, digits everywhere but the two '/'.
StrictShape(s) ==
    /\ Len(s) = 10
    /\ Char(s, 3) = "/"
    /\ Char(s, 6) = "/"
    /\ \A i \in {1, 2, 4, 5, 7, 8, 9, 10} : Char(s, i) \in DigitSet

RefDigit(s, i) == CHOOSE k \in 0..9 : Char(DigitChars, k + 1) = Char(s, i)
RefDay(s) == 10 * RefDigit(s, 1) + RefDigit(s, 2)
RefMonth(s) == 10 * RefDigit(s, 4) + RefDigit(s, 5)
RefYear(s) ==
    1000 * RefDigit(s, 7) + 100 * RefDigit(s, 8) + 10 * RefDigit(s, 9)
    + RefDigit(s, 10)

RefValidString(s) ==
    StrictShape(s) /\ RefValid(RefDay(s), RefMonth(s), RefYear(s))

TwoDigits(n) ==
    Char(DigitChars, (n \div 10) + 1) \o Char(DigitChars, (n % 10) + 1)

RefDateText(t) ==
    TwoDigits(t[1]) \o "/" \o TwoDigits(t[2]) \o "/"
    \o TwoDigits(t[3] \div 100) \o TwoDigits(t[3] % 100)

\* LNMP + 7 calendar days, rolling over by the length of LNMP's own month.
RefAdd7(d, m, y) ==
    LET len == RefMonthLength(m, y)
    IN IF d + 7 <= len THEN <<d + 7, m, y>>
       ELSE IF m = 12 THEN <<d + 7 - len, 1, y + 1>>
       ELSE <<d + 7 - len, m + 1, y>>

\* Month back 3 and year forward 1: a net shift of 9 months forward.
RefBack3Forward1(t) ==
    IF t[2] > 3 THEN <<t[1], t[2] - 3, t[3] + 1>>
    ELSE <<t[1], t[2] + 9, t[3]>>

RefNaegele(d, m, y) == RefBack3Forward1(RefAdd7(d, m, y))

\* The algorithm of section 4.2 of the specification, steps 1 to 5: the
\* overflow loop runs against the shifted month from its first test on.
RECURSIVE RefSection42Loop(_, _, _)
RefSection42Loop(d, m, y) ==
    IF d > RefMonthLength(m, y)
    THEN IF m = 12
         THEN RefSection42Loop(d - RefMonthLength(m, y), 1, y + 1)
         ELSE RefSection42Loop(d - RefMonthLength(m, y), m + 1, y)
    ELSE <<d, m, y>>

RefSection42(d, m, y) ==
    LET r == IF m > 3 THEN RefSection42Loop(d + 7, m - 3, y)
             ELSE RefSection42Loop(d + 7, m + 9, y - 1)
    IN <<r[1], r[2], r[3] + 1>>

\* The LNMP argument is not the null pointer; the string it points to.
LnmpGiven == lnmp # NULL
Lnmp == Deref(lnmp)

\* The LNMP argument points to a valid date in dd/mm/yyyy.
LnmpValid == LnmpGiven /\ RefValidString(Lnmp)

\* The LNMP argument points to a string of exactly the shape dd/mm/yyyy.
LnmpStrict == LnmpGiven /\ StrictShape(Lnmp)

\* The call of naegeles_compute_edd has returned.
EddReturned == pc = "done" /\ caller = "edd"

\* ------------------------------------------------------------------------
\* Properties of the EDD computation (checked under SpecDates)
\* ------------------------------------------------------------------------
\* C1: for every valid LNMP, naegeles_compute_edd returns OK and writes, as
\* zero-padded dd/mm/yyyy, LNMP advanced by 7 days (rolling over by the
\* length of LNMP's own month, December into the next year) and then moved
\* 3 months back and 1 year forward; 01/01/2024 gives 08/10/2024,
\* 15/06/2023 gives 22/03/2024 and 28/02/2024 gives 06/12/2024.
C1_NaegeleRule ==
    (EddReturned /\ LnmpValid) =>
        /\ result = NAEGELES_OK
        /\ edd_out = Ptr(RefDateText(RefNaegele(RefDay(Lnmp), RefMonth(Lnmp),
                                                RefYear(Lnmp))))
        /\ (lnmp = Ptr("01/01/2024") => edd_out = Ptr("08/10/2024"))
        /\ (lnmp = Ptr("15/06/2023") => edd_out = Ptr("22/03/2024"))
        /\ (lnmp = Ptr("28/02/2024") => edd_out = Ptr("06/12/2024"))

\* An LNMP whose 7 days roll over from February into March.
C1_Witness ==
    EddReturned /\ lnmp = Ptr("28/02/2024") /\ result = NAEGELES_OK
    /\ edd_out = Ptr("06/12/2024") /\ iters = 1

\* C2: round trip: for every valid LNMP the string naegeles_compute_edd
\* writes is itself accepted by parse_date: it is a well-formed dd/mm/yyyy
\* with the year in 1900..2100, the month in 1..12 and the day within the
\* length of that month in that year.
C2_RoundTrip ==
    (EddReturned /\ LnmpValid /\ result = NAEGELES_OK) =>
        /\ parse_date(edd_out).ok
        /\ RefValidString(Deref(edd_out))

\* C3: a well-formed dd/mm/yyyy with fields (d, m, y) is accepted if and
\* only if 1900 <= y <= 2100, 1 <= m <= 12 and 1 <= d <= L(m, y), L being
\* the Gregorian month length; days_in_month is 0 for a month outside
\* 1..12; every other (d, m, y) is rejected with the invalid-date error.
C3_ValidationRule ==
    (EddReturned /\ LnmpStrict) =>
        LET d == RefDay(Lnmp)
            m == RefMonth(Lnmp)
            y == RefYear(Lnmp)
        IN /\ (result = NAEGELES_OK) <=> RefValid(d, m, y)
           /\ ~RefValid(d, m, y) => result = NAEGELES_ERR_INVALID_DATE
           /\ parse_date(lnmp).ok <=> RefValid(d, m, y)
           /\ days_in_month(m, y) =
                  IF m \in 1..12 THEN RefMonthLength(m, y) ELSE 0
           /\ is_leap_year(y) <=> RefLeap(y)

\* 29 February of 1900, a year divisible by 100 and not by 400, is rejected.
C3_Witness ==
    EddReturned /\ lnmp = Ptr("29/02/1900")
    /\ result = NAEGELES_ERR_INVALID_DATE

\* C9 as stated: the loop tests day' against the length of the shifted
\* month in every iteration, the first included; the result is that of the
\* algorithm of section 4.2; on loop exit day' fits in the resulting month.
C9_LoopAgainstShiftedMonth ==
    /\ pc = "edd_loop" =>
           /\ (day > max_days) <=> (day > RefMonthLength(month, year))
           /\ day > max_days => max_days = RefMonthLength(month, year)
    /\ (EddReturned /\ LnmpValid) =>
           /\ edd_out = Ptr(RefDateText(RefSection42(RefDay(Lnmp),
                                  RefMonth(Lnmp), RefYear(Lnmp))))
           /\ day <= RefMonthLength(month, year - 1)

\* C9 amended: the first test of the loop compares day' = day + 7 with
\* the length of the LNMP's own month in the LNMP's year, (month', year')
\* being already shifted; the body subtracts that length, increments
\* month' (12 wraps to 1 with year' + 1) and recomputes the length for the
\* new month'; on exit day' is at least 1 and at most the length last
\* computed, which is the resulting month's only when the body has run.
C9_LoopAgainstOwnMonthFirst ==
    LET d == RefDay(Lnmp)
        m == RefMonth(Lnmp)
        y == RefYear(Lnmp)
        own == RefMonthLength(m, y)
        sm == IF m > 3 THEN m - 3 ELSE m + 9
        sy == IF m > 3 THEN y ELSE y - 1
        loopState == <<day, month, year, max_days>>
        first == <<d + 7, sm, sy, own>>
        second == IF sm = 12
                  THEN <<d + 7 - own, 1, sy + 1, RefMonthLength(1, sy + 1)>>
                  ELSE <<d + 7 - own, sm + 1, sy, RefMonthLength(sm + 1, sy)>>
    IN /\ (pc = "edd_loop" /\ iters = 0) => loopState = first
       /\ (pc = "edd_loop" /\ iters > 0) => (d + 7 > own /\ loopState = second)
       /\ (EddReturned /\ result = NAEGELES_OK) =>
              /\ 1 <= day /\ day <= max_days
              /\ iters = 0 => (d + 7 <= own /\ max_days = own)
              /\ iters > 0 => max_days = RefMonthLength(month, year - 1)

\* The loop is entered with the length of May (31) while the shifted month
\* is February: 24 + 7 = 31 does not overflow May and stays in February.
C9_Witness ==
    /\ pc = "edd_loop" /\ iters = 0 /\ lnmp = Ptr("24/05/2024")
    /\ day = 31 /\ month = 2 /\ max_days = 31

\* C10: for every valid LNMP the day-overflow loop exits after at most one
\* execution of its body, month stays within 1..12 throughout, so that
\* days_in_month never returns 0 in the loop, and the function returns
\* with day >= 1.
C10_LoopTerminates ==
    /\ pc = "edd_loop" =>
           /\ month \in 1..12
           /\ max_days # 0
           /\ iters <= 1
           /\ iters = 1 => day <= max_days
    /\ (EddReturned /\ result = NAEGELES_OK) =>
           /\ iters <= 1
           /\ day >= 1
           /\ month \in 1..12

\* The body has run once, wrapping December to January, and the loop is
\* about to exit.
C10_Witness ==
    /\ pc = "edd_loop" /\ iters = 1 /\ lnmp = Ptr("28/03/2024")
    /\ day = 4 /\ month = 1 /\ year = 2024

\* ------------------------------------------------------------------------
\* Properties of the parser (checked under SpecStrings)
\* ------------------------------------------------------------------------
\* A library call on the LNMP has returned.
LibraryReturned == pc = "done" /\ caller \in {"edd", "woa", "compute"}

\* The length or the separator pattern is not that of dd/mm/yyyy.
FormatDefect(s) ==
    \/ Len(s) # 10
    \/ Char(s, 3) # "/"
    \/ Char(s, 6) # "/"

\* Well formed, with a field out of range.
RangeDefect(s) ==
    StrictShape(s) /\ ~RefValid(RefDay(s), RefMonth(s), RefYear(s))

\* C5: only a string of exactly ten characters, two digits, '/', two
\* digits, '/', four digits, is accepted; every other string (wrong length
\* or separators, a short field, a space or a sign in a field, characters
\* after the year) makes naegeles_compute_edd and naegeles_compute_woa
\* fail, and none is treated as a date.
C5_OnlyStrictShapeAccepted ==
    (pc = "done" /\ caller \in {"edd", "woa"} /\ ~LnmpStrict) =>
        result = NAEGELES_ERR_INVALID_DATE

\* C6 as stated: a rejected string whose length or separator pattern is
\* not dd/mm/yyyy is reported with a kind (InvalidFormat) other than the
\* one a well-formed string with fields out of range is reported with
\* (InvalidDate), so that the caller can tell the two apart.
C6_FormatDistinctFromDate ==
    /\ (LibraryReturned /\ LnmpGiven /\ RangeDefect(Lnmp)) =>
           result = NAEGELES_ERR_INVALID_DATE
    /\ (LibraryReturned /\ LnmpGiven /\ FormatDefect(Lnmp)
            /\ result # NAEGELES_OK
            /\ ~woa_called) =>
           result # NAEGELES_ERR_INVALID_DATE

\* C6 amended: a string of the wrong length, and "2024/01/01", fail with
\* NAEGELES_ERR_INVALID_DATE and the buffer text "Invalid date", exactly as
\* a well-formed string with fields out of range does ("31/02/2024",
\* "00/01/2024", "01/13/2024"): there is one kind for both defects and the
\* caller cannot tell them apart.
C6_OneKindForFormatAndDate ==
    (LibraryReturned /\ LnmpGiven
         /\ (RangeDefect(Lnmp) \/ Len(Lnmp) # 10 \/ Lnmp = "2024/01/01")) =>
        /\ result = NAEGELES_ERR_INVALID_DATE
        /\ naegeles_error_string(result) = "Invalid date format or value"
        /\ caller = "woa" => woa_out = Ptr("Invalid date")
        /\ caller # "woa" =>
               (edd_out = Ptr("Invalid date") /\ woa_out = woa_passed)

\* A misplaced separator has been reported as an invalid date.
C6_Witness ==
    /\ pc = "done" /\ caller = "compute" /\ lnmp = Ptr("2024/01/01")
    /\ result = NAEGELES_ERR_INVALID_DATE /\ edd_out = Ptr("Invalid date")

\* ------------------------------------------------------------------------
\* Properties of WOA, of the combined call and of the messages (checked
\* under Spec)
\* ------------------------------------------------------------------------
\* "<n> week|weeks" or "<n> day|days", singular exactly for 1.
RefCount(n, unit) == FmtD(n) \o " " \o unit \o (IF n = 1 THEN "" ELSE "s")

\* The age text for e >= 0 elapsed seconds.
RefWoaText(e) ==
    LET total == e \div SECONDS_PER_DAY
        w == total \div 7
        d == total % 7
    IN IF d = 0 THEN RefCount(w, "week")
       ELSE RefCount(w, "week") \o ", " \o RefCount(d, "day")

\* Both clock reads succeed.
ClockOk == lnmp_time # TIME_ERROR /\ current_time # TIME_ERROR

\* The WOA buffer the caller passed can be written.
WoaBufferOk == woa_passed # NULL /\ woa_out_size >= WOA_STR_MAX_LEN

\* The EDD buffer the caller passed can be written.
EddBufferOk == edd_out # NULL /\ edd_out_size >= DATE_STR_MAX_LEN

\* C4: for a valid LNMP whose local-midnight instant lies E seconds before
\* now, naegeles_compute_woa fails with the future-date error when E < 0,
\* and otherwise returns OK with total_days = floor(E / 86400), weeks =
\* total_days div 7, days = total_days mod 7, writing "<weeks> week|weeks"
\* when days = 0 and "<weeks> week|weeks, <days> day|days" when days > 0,
\* singular exactly for 1 (70 days: "10 weeks"; 73 days: "10 weeks, 3
\* days"; 7 days: "1 week"; 1 day: "0 weeks, 1 day").
C4_WeeksOfAmenorrhea ==
    (pc = "done" /\ caller = "woa" /\ LnmpValid /\ WoaBufferOk
         /\ ClockOk) =>
        LET e == current_time - lnmp_time
        IN /\ e < 0 => result = NAEGELES_ERR_FUTURE_DATE
           /\ e >= 0 => (result = NAEGELES_OK /\ woa_out = Ptr(RefWoaText(e)))
           /\ e = 70 * SECONDS_PER_DAY => woa_out = Ptr("10 weeks")
           /\ e = 73 * SECONDS_PER_DAY => woa_out = Ptr("10 weeks, 3 days")
           /\ e = 7 * SECONDS_PER_DAY => woa_out = Ptr("1 week")
           /\ e = 1 * SECONDS_PER_DAY => woa_out = Ptr("0 weeks, 1 day")

\* One second short of 8 days: one whole week and no day.
C4_Witness ==
    /\ pc = "done" /\ caller = "woa" /\ lnmp = Ptr("15/06/2023")
    /\ current_time - lnmp_time = 8 * SECONDS_PER_DAY - 1
    /\ result = NAEGELES_OK /\ woa_out = Ptr("1 week")

\* C7: naegeles_compute returns the first error in the order EDD, WOA.
\* When the EDD step fails (null input or output, buffer too small,
\* invalid date) it returns that error, the WOA step is not attempted and
\* the WOA buffer is left as the caller passed it; when the EDD step
\* succeeds it returns the outcome of the WOA step, so that a valid LNMP
\* in the future yields the future-date error with the EDD computed.
C7_FirstErrorShortCircuit ==
    (pc = "done" /\ caller = "compute") =>
        /\ (lnmp = NULL \/ edd_out = NULL) =>
               edd_result = NAEGELES_ERR_NULL_PARAM
        /\ (lnmp # NULL /\ edd_out # NULL
                /\ edd_out_size < DATE_STR_MAX_LEN) =>
               edd_result = NAEGELES_ERR_BUFFER_TOO_SMALL
        /\ (lnmp # NULL /\ EddBufferOk
                /\ (RangeDefect(Lnmp) \/ Len(Lnmp) # 10)) =>
               edd_result = NAEGELES_ERR_INVALID_DATE
        /\ (EddBufferOk /\ LnmpValid) =>
               edd_result = NAEGELES_OK
        /\ edd_result # NAEGELES_OK =>
               /\ result = edd_result
               /\ ~woa_called
               /\ woa_out = woa_passed
        /\ edd_result = NAEGELES_OK =>
               /\ woa_called
               /\ result = woa_result
        /\ (EddBufferOk /\ LnmpValid
                /\ WoaBufferOk /\ ClockOk /\ current_time < lnmp_time) =>
               /\ result = NAEGELES_ERR_FUTURE_DATE
               /\ edd_out = Ptr(RefDateText(RefNaegele(RefDay(Lnmp),
                                    RefMonth(Lnmp), RefYear(Lnmp))))

\* A valid LNMP one second in the future: the EDD is written and the
\* future-date error returned.
C7_Witness ==
    /\ pc = "done" /\ caller = "compute" /\ lnmp = Ptr("01/01/2024")
    /\ lnmp_time = current_time + 1
    /\ edd_result = NAEGELES_OK /\ edd_out = Ptr("08/10/2024")
    /\ result = NAEGELES_ERR_FUTURE_DATE

\* The message of each error kind.
RefMessage(code) ==
    CASE code = NAEGELES_ERR_NULL_PARAM -> "NULL parameter provided"
      [] code = NAEGELES_ERR_INVALID_DATE -> "Invalid date format or value"
      [] code = NAEGELES_ERR_DATE_CONVERSION -> "Failed to convert date"
      [] code = NAEGELES_ERR_SYSTEM_TIME -> "Failed to get system time"
      [] code = NAEGELES_ERR_FUTURE_DATE -> "LNMP date is in the future"
      [] code = NAEGELES_ERR_BUFFER_TOO_SMALL -> "Output buffer too small"

\* The text the library writes into the buffer of the failing step.
RefBufferText(code) ==
    CASE code = NAEGELES_ERR_INVALID_DATE -> "Invalid date"
      [] code = NAEGELES_ERR_DATE_CONVERSION -> "Date conversion error"
      [] code = NAEGELES_ERR_SYSTEM_TIME -> "System time error"
      [] code = NAEGELES_ERR_FUTURE_DATE -> "LNMP is in the future"

WritesBuffer(code) ==
    code \in {NAEGELES_ERR_INVALID_DATE, NAEGELES_ERR_DATE_CONVERSION,
              NAEGELES_ERR_SYSTEM_TIME, NAEGELES_ERR_FUTURE_DATE}

\* C8 as stated: whenever naegeles_compute_edd or naegeles_compute_woa
\* fails and writes error text into its buffer, that text is
\* naegeles_error_string(returned code), the message main prints.
C8_BufferTextIsErrorString ==
    /\ (pc = "done" /\ caller = "edd" /\ result # NAEGELES_OK
            /\ edd_out # edd_passed) =>
           edd_out = Ptr(naegeles_error_string(result))
    /\ (pc = "done" /\ caller = "woa" /\ result # NAEGELES_OK
            /\ woa_out # woa_passed) =>
           woa_out = Ptr(naegeles_error_string(result))

\* C8 amended: each error kind has one fixed message, that of
\* naegeles_error_string, which main prints after "Error: "; the text
\* written into a buffer on failure is another fixed text per kind
\* ("Invalid date", "Date conversion error", "System time error", "LNMP
\* is in the future"), and a null-parameter or buffer-too-small failure
\* leaves the buffer as passed.
C8_MessagesPerKind ==
    /\ (pc = "done" /\ caller = "main" /\ result # NAEGELES_OK) =>
           /\ stderr = "Error: " \o RefMessage(result) \o "\n"
           /\ stdout = ""
           /\ exit_code = 1
    /\ (pc = "done" /\ caller \in {"edd", "woa"} /\ result # NAEGELES_OK) =>
           LET buffer == IF caller = "edd" THEN edd_out ELSE woa_out
               before == IF caller = "edd" THEN edd_passed ELSE woa_passed
           IN /\ naegeles_error_string(result) = RefMessage(result)
              /\ WritesBuffer(result) =>
                     /\ buffer = Ptr(RefBufferText(result))
                     /\ buffer # Ptr(naegeles_error_string(result))
              /\ ~WritesBuffer(result) => buffer = before

\* main has reported a future LNMP, whose buffer text is another one.
C8_Witness ==
    /\ pc = "done" /\ caller = "main"
    /\ result = NAEGELES_ERR_FUTURE_DATE
    /\ woa_out = Ptr("LNMP is in the future")
    /\ stderr = "Error: LNMP date is in the future\n"

====
